---- MODULE Spec2Model ----
(***************************************************************************)
(* Model of ctrlz/large_json.py: the incremental JSON array writers.        *)
(*                                                                          *)
(*   dump_it            pull writer over an iterable          (lines 33-43) *)
(*   dump_it_by_hack    StreamArray fed to JSONEncoder.iterencode (6-54)    *)
(*   JsonSequenceWriter push writer owning a file, usable in `with` (57-85) *)
(*                                                                          *)
(* Text is a sequence of one-character strings.  A Python value is a record *)
(* [type, val]: an int, or a set (a type json cannot serialize).            *)
(***************************************************************************)
EXTENDS Integers, Sequences, FiniteSets, TLC

\* ------------------------------------------------------------------ bounds
MaxLen == 3      \* longest source handed to dump_it / dump_it_by_hack
MaxCalls == 4    \* most write()/close() calls made on one JsonSequenceWriter
MaxArr == 4      \* longest array handed to the numpy_alg functions
MaxDistance == 3 \* largest `distance` of array_distance_split
MaxKsize == 3    \* largest `ksize` of max_pool_1d
MaxStride == 2   \* largest `stride` of max_pool_1d
MaxPadding == 2  \* largest `padding` of max_pool_1d

\* ------------------------------------------------------------------ values
PyInt(n) == [type |-> "int", val |-> n]
SetObj == [type |-> "set", val |-> 0]
Values == {PyInt(7), PyInt(12), SetObj}

None == [type |-> "None", by |-> "-"]
Exc(t, b) == [type |-> t, by |-> b]

RECURSIVE SeqsUpTo(_, _)
SeqsUpTo(S, n) ==
    IF n = 0 THEN {<<>>}
    ELSE LET shorter == SeqsUpTo(S, n - 1)
         IN  shorter \cup {Append(s, x) : s \in {t \in shorter : Len(t) = n - 1}, x \in S}

\* ------------------------------------------------------------------ json.dumps
DigitChars == <<"0", "1", "2", "3", "4", "5", "6", "7", "8", "9">>

\* json.dumps of an int: its decimal digits, most significant first.
RECURSIVE IntStr(_)
IntStr(n) ==
    IF n < 10 THEN <<DigitChars[n + 1]>>
    ELSE IntStr(n \div 10) \o <<DigitChars[(n % 10) + 1]>>

\* dumps(obj) raises TypeError for a type the encoder does not know.
Serializable(obj) == obj.type = "int"

dumps(obj) == IntStr(obj.val)

\* The item separator of the encoder configuration: json's default is ', ',
\* separators=(',', ':') gives ','.
ItemSeparators == {<<",", " ">>, <<",">>}

VARIABLES
    \* the caller's arguments, shared by dump_it and dump_it_by_hack
    items,          \* the elements the source produces, in order
    src_raises,     \* TRUE: the source raises after producing them
    item_separator, \* json_kwargs: the encoder's item separator
    \* dump_it
    pc,             \* position in dump_it
    it,             \* what the iterator over the source has yet to produce
    obj,            \* loop variable
    prev_is_obj,
    fp,             \* text the sink has accepted
    exc,            \* the exception dump_it raised, or None
    pulled,         \* history: the elements next() has returned
    \* dump_it_by_hack
    hack_pc,
    generator,      \* StreamArray.generator: what it has yet to produce
    _len,           \* StreamArray._len
    iterating,      \* StreamArray.__iter__ has started
    value,          \* _iterencode_list's loop variable
    buf,
    first,
    hack_fp,
    hack_exc,
    \* JsonSequenceWriter and its caller
    w_pc,           \* "plain": methods called directly; "with"/"body"/"raising"/"left": scoped use
    _fp,            \* text written to the file
    _fp_closed,     \* the file object is closed
    _count,
    raised,         \* what the latest call raised, or None
    last_op,        \* the latest call: "init", "write", "close"
    calls,          \* number of write()/close() calls made
    body_exc,       \* the exception that left the with body, or None
    caller_exc,     \* the exception that reached the caller of the with statement
    written,        \* history: the elements whose write() returned normally
    failed_writes,  \* history: number of write() calls that raised
    close_calls,    \* history: number of close() calls
    closes_done,    \* history: number of close() calls that returned normally
    \* numpy_alg: one call of one of its functions
    array,          \* the 1-D array argument
    func,           \* the function called, "none" before the call
    args,           \* its other arguments
    result          \* [raised, output]: whether it raised, and what it returned

pullVars == <<items, src_raises, item_separator>>
dumpVars == <<pc, it, obj, prev_is_obj, fp, exc, pulled>>
hackVars == <<hack_pc, generator, _len, iterating, value, buf, first, hack_fp, hack_exc>>
writerVars == <<w_pc, _fp, _fp_closed, _count, raised, last_op, calls, body_exc,
                caller_exc, written, failed_writes, close_calls, closes_done>>
npVars == <<array, func, args, result>>
vars == <<pullVars, dumpVars, hackVars, writerVars, npVars>>

\* ------------------------------------------------------------------ dump_it
\* The caller's arguments: any source of at most MaxLen values, which ends or
\* raises after them, and an encoder configuration.
InitPull ==
    /\ items \in SeqsUpTo(Values, MaxLen)
    /\ src_raises \in BOOLEAN
    /\ item_separator \in ItemSeparators

InitDump ==
    /\ pc = "L35"
    /\ it = items
    /\ obj = None
    /\ prev_is_obj = FALSE
    /\ fp = <<>>
    /\ exc = None
    /\ pulled = <<>>

\* fp.write('['); prev_is_obj = False.  The sink accepts the write or rejects it.
DumpOpen ==
    /\ pc = "L35"
    /\ \E accepted \in BOOLEAN :
         IF accepted
         THEN /\ fp' = fp \o <<"[">>
              /\ prev_is_obj' = FALSE
              /\ pc' = "L37"
              /\ exc' = exc
         ELSE /\ exc' = Exc("IOError", "fp.write")
              /\ pc' = "raised"
              /\ UNCHANGED <<fp, prev_is_obj>>
    /\ UNCHANGED <<it, obj, pulled>>
    /\ UNCHANGED <<pullVars, hackVars, writerVars, npVars>>

\* Mutant of DumpNext: a failing source is treated as an exhausted one, so the
\* array is closed.
DumpNextSwallow ==
    /\ pc = "L37"
    /\ IF it # <<>>
       THEN /\ obj' = Head(it)
            /\ it' = Tail(it)
            /\ pulled' = Append(pulled, Head(it))
            /\ pc' = "L38"
            /\ fp' = fp
            /\ exc' = exc
       ELSE /\ IF src_raises
               THEN pc' = "raised" /\ exc' = Exc("SourceError", "next") /\ fp' = fp \o <<"]">>
               ELSE pc' = "L43" /\ exc' = exc /\ fp' = fp
            /\ UNCHANGED <<obj, it, pulled>>
    /\ UNCHANGED prev_is_obj
    /\ UNCHANGED <<pullVars, hackVars, writerVars, npVars>>

\* for obj in it: the iterator produces the next value, ends, or raises.
DumpNext ==
    /\ pc = "L37"
    /\ IF it # <<>>
       THEN /\ obj' = Head(it)
            /\ it' = Tail(it)
            /\ pulled' = Append(pulled, Head(it))
            /\ pc' = "L38"
            /\ exc' = exc
       ELSE /\ IF src_raises
               THEN pc' = "raised" /\ exc' = Exc("SourceError", "next")
               ELSE pc' = "L43" /\ exc' = exc
            /\ UNCHANGED <<obj, it, pulled>>
    /\ UNCHANGED <<prev_is_obj, fp>>
    /\ UNCHANGED <<pullVars, hackVars, writerVars, npVars>>

\* Mutant of DumpSep: the comma is written before the first element too.
DumpSepAlways ==
    /\ pc = "L38"
    /\ fp' = fp \o <<",">>
    /\ pc' = "L42"
    /\ prev_is_obj' = TRUE
    /\ UNCHANGED <<it, obj, pulled, exc>>
    /\ UNCHANGED <<pullVars, hackVars, writerVars, npVars>>

\* if prev_is_obj: fp.write(',')  else: prev_is_obj = True
DumpSep ==
    /\ pc = "L38"
    /\ IF prev_is_obj
       THEN \E accepted \in BOOLEAN :
              IF accepted
              THEN fp' = fp \o <<",">> /\ pc' = "L42" /\ exc' = exc
              ELSE exc' = Exc("IOError", "fp.write") /\ pc' = "raised" /\ fp' = fp
       ELSE fp' = fp /\ pc' = "L42" /\ exc' = exc
    /\ prev_is_obj' = TRUE
    /\ UNCHANGED <<it, obj, pulled>>
    /\ UNCHANGED <<pullVars, hackVars, writerVars, npVars>>

\* Mutant of DumpObj: the element's text is kept back instead of being written
\* before the next element is requested.
DumpObjDeferred ==
    /\ pc = "L42"
    /\ IF ~Serializable(obj)
       THEN exc' = Exc("TypeError", "dumps") /\ pc' = "raised"
       ELSE pc' = "L37" /\ exc' = exc
    /\ UNCHANGED <<it, obj, prev_is_obj, pulled, fp>>
    /\ UNCHANGED <<pullVars, hackVars, writerVars, npVars>>

\* fp.write(dumps(obj, **json_kwargs)): dumps raises before anything is written.
DumpObj ==
    /\ pc = "L42"
    /\ IF ~Serializable(obj)
       THEN exc' = Exc("TypeError", "dumps") /\ pc' = "raised" /\ fp' = fp
       ELSE \E accepted \in BOOLEAN :
              IF accepted
              THEN fp' = fp \o dumps(obj) /\ pc' = "L37" /\ exc' = exc
              ELSE exc' = Exc("IOError", "fp.write") /\ pc' = "raised" /\ fp' = fp
    /\ UNCHANGED <<it, obj, prev_is_obj, pulled>>
    /\ UNCHANGED <<pullVars, hackVars, writerVars, npVars>>

\* fp.write(']') and return.
DumpEnd ==
    /\ pc = "L43"
    /\ \E accepted \in BOOLEAN :
         IF accepted
         THEN fp' = fp \o <<"]">> /\ pc' = "done" /\ exc' = exc
         ELSE exc' = Exc("IOError", "fp.write") /\ pc' = "raised" /\ fp' = fp
    /\ UNCHANGED <<it, obj, prev_is_obj, pulled>>
    /\ UNCHANGED <<pullVars, hackVars, writerVars, npVars>>

dump_it == DumpOpen \/ DumpNext \/ DumpSep \/ DumpObj \/ DumpEnd

\* ------------------------------------------------------------------ dump_it_by_hack
InitHack ==
    /\ hack_pc = "L52"
    /\ generator = <<>>
    /\ _len = 0
    /\ iterating = FALSE
    /\ value = None
    /\ buf = <<>>
    /\ first = TRUE
    /\ hack_fp = <<>>
    /\ hack_exc = None

\* stream_array = StreamArray(it): __init__ keeps the source and sets _len = 1.
StreamArrayInit ==
    /\ hack_pc = "L52"
    /\ generator' = items
    /\ _len' = 1
    /\ hack_pc' = "L53"
    /\ UNCHANGED <<iterating, value, buf, first, hack_fp, hack_exc>>
    /\ UNCHANGED <<pullVars, dumpVars, writerVars, npVars>>

\* StreamArray.__len__
StreamArrayLen == _len

\* iterencode(stream_array) starts the list encoder: `if not lst: yield '[]'`
\* asks __len__; otherwise buf = '[' and first = True.
IterencodeStart ==
    /\ hack_pc = "L53"
    /\ IF StreamArrayLen = 0
       THEN \E accepted \in BOOLEAN :
              IF accepted
              THEN hack_fp' = hack_fp \o <<"[", "]">> /\ hack_pc' = "done" /\ hack_exc' = hack_exc
              ELSE hack_exc' = Exc("IOError", "fp.write") /\ hack_pc' = "raised" /\ hack_fp' = hack_fp
       ELSE hack_pc' = "for" /\ UNCHANGED <<hack_fp, hack_exc>>
    /\ buf' = <<"[">>
    /\ first' = TRUE
    /\ UNCHANGED <<generator, _len, iterating, value>>
    /\ UNCHANGED <<pullVars, dumpVars, writerVars, npVars>>

\* Mutant of StreamArrayIter: `self._len = 0` at the start of __iter__ is missing.
StreamArrayIterNoReset ==
    /\ hack_pc = "for"
    /\ _len' = IF iterating THEN _len + 1 ELSE _len
    /\ iterating' = TRUE
    /\ IF generator # <<>>
       THEN /\ value' = Head(generator)
            /\ generator' = Tail(generator)
            /\ hack_pc' = "emit"
            /\ hack_exc' = hack_exc
       ELSE /\ IF src_raises
               THEN hack_pc' = "raised" /\ hack_exc' = Exc("SourceError", "next")
               ELSE hack_pc' = "end" /\ hack_exc' = hack_exc
            /\ UNCHANGED <<value, generator>>
    /\ UNCHANGED <<buf, first, hack_fp>>
    /\ UNCHANGED <<pullVars, dumpVars, writerVars, npVars>>

\* `for value in lst` runs StreamArray.__iter__ up to its next yield: on the
\* first request _len = 0, on a later one _len += 1 (the statement after the
\* yield); then the source produces the next item, ends, or raises.
StreamArrayIter ==
    /\ hack_pc = "for"
    /\ _len' = IF iterating THEN _len + 1 ELSE 0
    /\ iterating' = TRUE
    /\ IF generator # <<>>
       THEN /\ value' = Head(generator)
            /\ generator' = Tail(generator)
            /\ hack_pc' = "emit"
            /\ hack_exc' = hack_exc
       ELSE /\ IF src_raises
               THEN hack_pc' = "raised" /\ hack_exc' = Exc("SourceError", "next")
               ELSE hack_pc' = "end" /\ hack_exc' = hack_exc
            /\ UNCHANGED <<value, generator>>
    /\ UNCHANGED <<buf, first, hack_fp>>
    /\ UNCHANGED <<pullVars, dumpVars, writerVars, npVars>>

\* The list encoder's loop body: `if first: first = False else: buf = separator`;
\* an int is yielded as buf + text, any other object has buf yielded alone
\* before it is encoded.  dump_it_by_hack writes the chunk: fp.write(chunk).
IterencodeItem ==
    /\ hack_pc = "emit"
    /\ LET b == IF first THEN buf ELSE item_separator
           chunk == IF Serializable(value) THEN b \o dumps(value) ELSE b
       IN  /\ buf' = b
           /\ \E accepted \in BOOLEAN :
                IF accepted
                THEN /\ hack_fp' = hack_fp \o chunk
                     /\ hack_pc' = IF Serializable(value) THEN "for" ELSE "default"
                     /\ hack_exc' = hack_exc
                ELSE /\ hack_exc' = Exc("IOError", "fp.write")
                     /\ hack_pc' = "raised"
                     /\ hack_fp' = hack_fp
    /\ first' = FALSE
    /\ UNCHANGED <<generator, _len, iterating, value>>
    /\ UNCHANGED <<pullVars, dumpVars, writerVars, npVars>>

\* An object of an unknown type reaches JSONEncoder.default, which raises TypeError.
IterencodeDefault ==
    /\ hack_pc = "default"
    /\ hack_exc' = Exc("TypeError", "dumps")
    /\ hack_pc' = "raised"
    /\ UNCHANGED <<generator, _len, iterating, value, buf, first, hack_fp>>
    /\ UNCHANGED <<pullVars, dumpVars, writerVars, npVars>>

\* After the loop the list encoder yields ']'.
IterencodeEnd ==
    /\ hack_pc = "end"
    /\ \E accepted \in BOOLEAN :
         IF accepted
         THEN hack_fp' = hack_fp \o <<"]">> /\ hack_pc' = "done" /\ hack_exc' = hack_exc
         ELSE hack_exc' = Exc("IOError", "fp.write") /\ hack_pc' = "raised" /\ hack_fp' = hack_fp
    /\ UNCHANGED <<generator, _len, iterating, value, buf, first>>
    /\ UNCHANGED <<pullVars, dumpVars, writerVars, npVars>>

dump_it_by_hack ==
    \/ StreamArrayInit
    \/ IterencodeStart
    \/ StreamArrayIter
    \/ IterencodeItem
    \/ IterencodeDefault
    \/ IterencodeEnd

\* ------------------------------------------------------------------ JsonSequenceWriter
\* __init__: open(filepath, 'wt') gives an empty open file, _count = 0.  The
\* caller then calls the methods directly ("plain") or enters a with statement.
InitWriter ==
    /\ w_pc \in {"plain", "with"}
    /\ _fp = <<>>
    /\ _fp_closed = FALSE
    /\ _count = 0
    /\ raised = None
    /\ last_op = "init"
    /\ calls = 0
    /\ body_exc = None
    /\ caller_exc = None
    /\ written = <<>>
    /\ failed_writes = 0
    /\ close_calls = 0
    /\ closes_done = 0

\* A write to a closed file raises ValueError('I/O operation on closed file.')
ClosedFile(by) == Exc("ValueError", by)

\* Mutant of WritePrefix: the comma between elements is forgotten.
WritePrefixNoComma == IF _count > 0 THEN <<>> ELSE <<"[">>

\* write, lines 68-71: ',' when _count > 0, else '['.
WritePrefix == IF _count > 0 THEN <<",">> ELSE <<"[">>

\* Mutant of write: the text goes to a buffer that outlives the file, so a write
\* after close() goes through.
writeIgnoringClosed(o) ==
    IF ~Serializable(o)
    THEN [fp |-> _fp \o WritePrefix, count |-> _count, exc |-> Exc("TypeError", "dumps")]
    ELSE [fp |-> _fp \o WritePrefix \o dumps(o), count |-> _count + 1, exc |-> None]

\* write(obj), lines 67-73, as [fp, count, exc]: the file text and the counter
\* it leaves and the exception it raises.  The bracket or comma is written
\* first, then dumps(obj) is evaluated, then its text is written and _count
\* incremented.
write(o) ==
    IF _fp_closed
    THEN [fp |-> _fp, count |-> _count, exc |-> ClosedFile("write")]
    ELSE IF ~Serializable(o)
    THEN [fp |-> _fp \o WritePrefix, count |-> _count, exc |-> Exc("TypeError", "dumps")]
    ELSE [fp |-> _fp \o WritePrefix \o dumps(o), count |-> _count + 1, exc |-> None]

\* Mutant of close: the file is flushed and left open.
closeNoRelease == [fp |-> _fp \o <<"]">>, closed |-> _fp_closed, exc |-> None]

\* close(), lines 75-77, as [fp, closed, exc]: self._fp.write(']') raises on a
\* closed file; otherwise ']' is written and the file closed.
close ==
    IF _fp_closed
    THEN [fp |-> _fp, closed |-> TRUE, exc |-> ClosedFile("close")]
    ELSE [fp |-> _fp \o <<"]">>, closed |-> TRUE, exc |-> None]

\* Mutant of ExitReturns: __exit__ returns True and swallows the body's exception.
ExitReturnsTrue == TRUE

\* __exit__ returns False (line 85): the body's exception is not suppressed.
ExitReturns == FALSE

\* __enter__ returns self: the body starts.
Enter ==
    /\ w_pc = "with"
    /\ w_pc' = "body"
    /\ UNCHANGED <<_fp, _fp_closed, _count, raised, last_op, calls, body_exc,
                   caller_exc, written, failed_writes, close_calls, closes_done>>
    /\ UNCHANGED <<pullVars, dumpVars, hackVars, npVars>>

\* An exception raised by a call in a with body leaves the body; a caller that
\* uses the writer directly sees it and goes on.
AfterCall(e) ==
    /\ raised' = e
    /\ calls' = calls + 1
    /\ IF w_pc = "body" /\ e # None
       THEN w_pc' = "raising" /\ body_exc' = e
       ELSE UNCHANGED <<w_pc, body_exc>>
    /\ UNCHANGED caller_exc

\* The caller calls w.write(o).
Write(o) ==
    /\ w_pc \in {"plain", "body"}
    /\ calls < MaxCalls
    /\ LET r == write(o)
       IN  /\ _fp' = r.fp
           /\ _count' = r.count
           /\ AfterCall(r.exc)
           /\ written' = IF r.exc = None THEN Append(written, o) ELSE written
           /\ failed_writes' = IF r.exc = None THEN failed_writes ELSE failed_writes + 1
    /\ last_op' = "write"
    /\ UNCHANGED <<_fp_closed, close_calls, closes_done>>
    /\ UNCHANGED <<pullVars, dumpVars, hackVars, npVars>>

\* The caller calls w.close().
Close ==
    /\ w_pc \in {"plain", "body"}
    /\ calls < MaxCalls
    /\ LET r == close
       IN  /\ _fp' = r.fp
           /\ _fp_closed' = r.closed
           /\ AfterCall(r.exc)
           /\ closes_done' = IF r.exc = None THEN closes_done + 1 ELSE closes_done
    /\ last_op' = "close"
    /\ close_calls' = close_calls + 1
    /\ UNCHANGED <<_count, written, failed_writes>>
    /\ UNCHANGED <<pullVars, dumpVars, hackVars, npVars>>

\* The with statement ends, the body having finished or raised: __exit__ calls
\* self.close() and returns False.  An exception raised inside __exit__ is the
\* one that propagates; otherwise the body's, unless __exit__ returned True.
Exit ==
    /\ w_pc \in {"body", "raising"}
    /\ LET r == close
           exit_exc == IF r.exc = None THEN None ELSE Exc(r.exc.type, "__exit__")
       IN  /\ _fp' = r.fp
           /\ _fp_closed' = r.closed
           /\ raised' = exit_exc
           /\ closes_done' = IF r.exc = None THEN closes_done + 1 ELSE closes_done
           /\ caller_exc' = IF exit_exc # None THEN exit_exc
                            ELSE IF ExitReturns THEN None ELSE body_exc
    /\ last_op' = "__exit__"
    /\ close_calls' = close_calls + 1
    /\ w_pc' = "left"
    /\ UNCHANGED <<_count, calls, body_exc, written, failed_writes>>
    /\ UNCHANGED <<pullVars, dumpVars, hackVars, npVars>>

JsonSequenceWriter == Enter \/ (\E o \in Values : Write(o)) \/ Close \/ Exit

\* ------------------------------------------------------------------ numpy_alg
ArrVals == {-1, 0, 1, 2}
PadValues == {0, 1}

NoArgs == [distance |-> 0, ksize |-> 0, stride |-> 0, padding |-> 0, value |-> 0]
Returned(out) == [raised |-> FALSE, output |-> out]
Raised == [raised |-> TRUE, output |-> <<>>]

\* Mutant of IsSplit: the gap must exceed distance.
IsSplitStrict(last_num, num, distance) ==
    last_num # <<>> /\ num - last_num[1] > distance

\* array_distance_split, line 40: last_num is <<>> for None, <<n>> for n.
IsSplit(last_num, num, distance) ==
    last_num # <<>> /\ num - last_num[1] >= distance

\* array_distance_split, lines 39-42: the loop from index idx on.
RECURSIVE DistanceSplitLoop(_, _, _, _, _)
DistanceSplitLoop(a, distance, idx, last_num, indices) ==
    IF idx >= Len(a) THEN indices
    ELSE LET num == a[idx + 1]
         IN  DistanceSplitLoop(a, distance, idx + 1, <<num>>,
                 IF IsSplit(last_num, num, distance)
                 THEN Append(indices, idx) ELSE indices)

array_distance_split(a, distance) == DistanceSplitLoop(a, distance, 0, <<>>, <<>>)

\* nonzero_partions, lines 72-79: the loop from index idx on, then the
\* remaining partition.
RECURSIVE NonzeroLoop(_, _, _, _)
NonzeroLoop(a, idx, left_idx, partions) ==
    IF idx >= Len(a)
    THEN IF left_idx >= 0 THEN Append(partions, <<left_idx, Len(a)>>) ELSE partions
    ELSE LET v == a[idx + 1]
         IN  IF v > 0 /\ left_idx < 0
             THEN NonzeroLoop(a, idx + 1, idx, partions)
             ELSE IF v = 0 /\ left_idx >= 0
             THEN NonzeroLoop(a, idx + 1, -1, Append(partions, <<left_idx, idx>>))
             ELSE NonzeroLoop(a, idx + 1, left_idx, partions)

nonzero_partions(a) == NonzeroLoop(a, 0, -1, <<>>)

\* Python's a[i:j] for 0 <= i and 0 <= j: the elements at indices i..j-1 that exist.
Slice(a, i, j) == SubSeq(a, i + 1, IF j < Len(a) THEN j ELSE Len(a))

PyMax(x, y) == IF x >= y THEN x ELSE y

\* np.max of a non-empty array.
RECURSIVE NpMax(_)
NpMax(a) == IF Len(a) = 1 THEN a[1] ELSE PyMax(a[1], NpMax(Tail(a)))

\* Mutant of L_out: the `+ 1` is missing.
L_outShort(L_in, ksize, stride, padding) == (L_in + 2 * padding - ksize) \div stride

\* max_pool_1d, line 132.
L_out(L_in, ksize, stride, padding) == (L_in + 2 * padding - ksize) \div stride + 1

\* max_pool_1d, lines 137-149: the value for one output index, as <<v>>, or
\* <<>> when np.max is handed an empty slice and raises ValueError.
PoolAt(a, idx_out, ksize, stride, padding, pvalue) ==
    LET L_in == Len(a)
        idx_in_left == idx_out * stride - padding
        idx_in_right == idx_in_left + ksize
        MaxOf(slice, withValue) ==
            IF slice = <<>> THEN <<>>
            ELSE IF withValue THEN <<PyMax(NpMax(slice), pvalue)>> ELSE <<NpMax(slice)>>
    IN  IF idx_in_left < 0 /\ 0 < idx_in_right
        THEN MaxOf(Slice(a, 0, idx_in_right), TRUE)
        ELSE IF idx_in_left >= 0 /\ idx_in_right <= L_in
        THEN MaxOf(Slice(a, idx_in_left, idx_in_right), FALSE)
        ELSE IF idx_in_left < L_in /\ L_in < idx_in_right
        THEN MaxOf(Slice(a, idx_in_left, L_in), TRUE)
        ELSE <<pvalue>>

\* max_pool_1d, lines 136-151: the loop from idx_out on.
RECURSIVE PoolLoop(_, _, _, _, _, _, _, _)
PoolLoop(a, idx_out, n, ksize, stride, padding, pvalue, output) ==
    IF idx_out >= n THEN Returned(output)
    ELSE LET v == PoolAt(a, idx_out, ksize, stride, padding, pvalue)
         IN  IF v = <<>> THEN Raised
             ELSE PoolLoop(a, idx_out + 1, n, ksize, stride, padding, pvalue,
                           Append(output, v[1]))

\* max_pool_1d: np.zeros(L_out) raises ValueError for a negative L_out.
max_pool_1d(a, ksize, stride, padding, pvalue) ==
    LET n == L_out(Len(a), ksize, stride, padding)
    IN  IF n < 0 THEN Raised
        ELSE PoolLoop(a, 0, n, ksize, stride, padding, pvalue, <<>>)

InitNumpy ==
    /\ array \in SeqsUpTo(ArrVals, MaxArr)
    /\ func = "none"
    /\ args = NoArgs
    /\ result = Returned(<<>>)

InitNumpyIdle ==
    /\ array = <<>>
    /\ func = "none"
    /\ args = NoArgs
    /\ result = Returned(<<>>)

CallArrayDistanceSplit ==
    /\ func = "none"
    /\ \E distance \in 1..MaxDistance :
         /\ args' = [NoArgs EXCEPT !.distance = distance]
         /\ result' = Returned(array_distance_split(array, distance))
    /\ func' = "array_distance_split"
    /\ UNCHANGED array
    /\ UNCHANGED <<pullVars, dumpVars, hackVars, writerVars>>

CallNonzeroPartions ==
    /\ func = "none"
    /\ args' = NoArgs
    /\ result' = Returned(nonzero_partions(array))
    /\ func' = "nonzero_partions"
    /\ UNCHANGED array
    /\ UNCHANGED <<pullVars, dumpVars, hackVars, writerVars>>

CallMaxPool1d ==
    /\ func = "none"
    /\ \E ksize \in 1..MaxKsize, stride \in 1..MaxStride,
          padding \in 0..MaxPadding, pvalue \in PadValues :
         /\ args' = [NoArgs EXCEPT !.ksize = ksize, !.stride = stride,
                                   !.padding = padding, !.value = pvalue]
         /\ result' = max_pool_1d(array, ksize, stride, padding, pvalue)
    /\ func' = "max_pool_1d"
    /\ UNCHANGED array
    /\ UNCHANGED <<pullVars, dumpVars, hackVars, writerVars>>

numpy_alg == CallArrayDistanceSplit \/ CallNonzeroPartions \/ CallMaxPool1d

\* ------------------------------------------------------------------ specifications
\* The writer is left as constructed while the pull writers run, and the pull
\* writers are left at their entry while the push writer is driven.
InitIdle ==
    /\ items = <<>>
    /\ src_raises = FALSE
    /\ item_separator = <<",", " ">>

PullInit == InitPull /\ InitDump /\ InitHack /\ InitWriter /\ w_pc = "plain" /\ InitNumpyIdle

PullNext == dump_it \/ dump_it_by_hack

SpecPull == PullInit /\ [][PullNext]_vars

WriterInit == InitIdle /\ InitDump /\ InitHack /\ InitWriter /\ InitNumpyIdle

NumpyInit == InitIdle /\ InitDump /\ InitHack /\ InitWriter /\ w_pc = "plain" /\ InitNumpy

SpecNumpy == NumpyInit /\ [][numpy_alg]_vars

SpecWriter == WriterInit /\ [][JsonSequenceWriter]_vars

Init == InitPull /\ InitDump /\ InitHack /\ InitWriter /\ InitNumpy

Next == dump_it \/ dump_it_by_hack \/ JsonSequenceWriter \/ numpy_alg

Spec == Init /\ [][Next]_vars

\* ------------------------------------------------------------------ properties
RECURSIVE Count(_, _)
Count(c, s) == IF s = <<>> THEN 0 ELSE (IF Head(s) = c THEN 1 ELSE 0) + Count(c, Tail(s))

\* The encoded texts of the values of seq, joined by single commas.
RECURSIVE JoinComma(_)
JoinComma(seq) ==
    IF seq = <<>> THEN <<>>
    ELSE IF Len(seq) = 1 THEN IntStr(seq[1].val)
    ELSE IntStr(seq[1].val) \o <<",">> \o JoinComma(Tail(seq))

IsPrefix(a, b) == Len(a) <= Len(b) /\ a = SubSeq(b, 1, Len(a))

\* C1: when dump_it returns, it has pulled every element of the source once,
\* in order, and the sink holds '[' + the encoded elements joined by ',' + ']',
\* with N-1 commas for N >= 1 elements and none for N <= 1 ('[]' for N = 0).
C1_DumpItWritesArray ==
    pc = "done" =>
        /\ pulled = items
        /\ it = <<>>
        /\ fp = <<"[">> \o JoinComma(items) \o <<"]">>
        /\ Count(",", fp) = (IF Len(items) >= 1 THEN Len(items) - 1 ELSE 0)
        /\ (items = <<>> => fp = <<"[", "]">>)

C1_Witness == pc = "done" /\ Len(items) = MaxLen /\ items[1] # items[2]

\* C9: when dump_it raises, it stays stopped (no step of it is enabled, so no
\* later write, retry or rollback), the exception is the failure's, and ']' has
\* not been written; a source that produced k elements and then failed leaves
\* '[' + the k encoded elements joined by ','.
C9_DumpItFailsFast ==
    pc = "raised" =>
        /\ exc # None
        /\ ~ENABLED dump_it
        /\ Count("]", fp) = 0
        /\ exc.type = "SourceError" =>
              /\ pulled = items
              /\ fp = <<"[">> \o JoinComma(items)
        /\ exc.type = "TypeError" =>
              /\ ~Serializable(obj)
              /\ fp = <<"[">> \o JoinComma(SubSeq(pulled, 1, Len(pulled) - 1))
                        \o (IF Len(pulled) > 1 THEN <<",">> ELSE <<>>)
        /\ exc.type = "IOError" =>
              IsPrefix(fp, <<"[">> \o JoinComma(SelectSeq(pulled, Serializable)))

C9_Witness ==
    /\ pc = "raised"
    /\ exc.type = "SourceError"
    /\ Len(items) >= 2

\* C10 (as claimed): for the same finite source and encoder configuration,
\* dump_it_by_hack leaves the same text in its sink as dump_it does.
C10_HackSameTextAsDumpIt ==
    (pc = "done" /\ hack_pc = "done") => hack_fp = fp

\* C2: after N >= 1 write calls that all returned normally, the file holds '['
\* and the encoded elements in call order, each later one preceded by exactly
\* one ','; one close() after them leaves exactly that text followed by ']'.
C2_WriterWritesArray ==
    (failed_writes = 0 /\ Len(written) >= 1) =>
        /\ _count = Len(written)
        /\ close_calls = 0 => _fp = <<"[">> \o JoinComma(written)
        /\ close_calls = 1 => _fp = <<"[">> \o JoinComma(written) \o <<"]">>

C2_Witness ==
    /\ failed_writes = 0
    /\ Len(written) >= 2
    /\ written[1] # written[2]
    /\ close_calls = 1
    /\ closes_done = 1

\* C3 (as claimed): close() on a freshly constructed writer, with no write()
\* before it, leaves the file holding exactly '[]'.
C3_CloseAloneWritesEmptyArray ==
    (last_op = "close" /\ calls = 1 /\ raised = None) => _fp = <<"[", "]">>

\* C4: once a close() has returned, every write() raises the closed-file error
\* and leaves the file text and the element counter as they were, and the file
\* stays closed.
C4_WriteAfterCloseFails ==
    [][(closes_done >= 1 /\ last_op' = "write" /\ calls' = calls + 1) =>
          /\ raised' = ClosedFile("write")
          /\ _fp' = _fp
          /\ _count' = _count
          /\ _fp_closed']_vars

C4_Witness ==
    /\ closes_done >= 1
    /\ last_op = "write"
    /\ raised = ClosedFile("write")
    /\ _count >= 1

\* C5 (as claimed): leaving the with statement has called close(), and when the
\* body raised, that exception is the one that reaches the caller.
C5_BodyErrorReachesCaller ==
    w_pc = "left" =>
        /\ close_calls >= 1
        /\ body_exc # None => caller_exc = body_exc

\* C5 (amended): leaving the with statement has called close() from __exit__,
\* whether the body finished or raised; if that close() returned normally the
\* caller gets the body's exception (none when the body finished normally), and
\* if that close() raised, as it does when the body had already closed the
\* writer, the caller gets the exception of close() instead.
C5_ExitClosesAndPropagates ==
    w_pc = "left" =>
        /\ last_op = "__exit__"
        /\ close_calls >= 1
        /\ _fp_closed
        /\ IF raised = None
           THEN caller_exc = body_exc
           ELSE caller_exc = raised /\ raised = ClosedFile("__exit__") /\ close_calls >= 2

C5_Witness ==
    /\ w_pc = "left"
    /\ body_exc = Exc("TypeError", "dumps")
    /\ caller_exc = body_exc
    /\ closes_done = 1

\* C6 (as claimed): in every sequence of write calls, successful or failing,
\* that ends with close(), '[' has been written exactly once, as the first
\* character of the file.
C6_OpenBracketExactlyOnce ==
    closes_done >= 1 => (Count("[", _fp) = 1 /\ _fp[1] = "[")

\* C7: ']' is in the file at most once; before any close() has returned it is
\* not there, whatever was written, and once a close() has returned it is there
\* exactly once, as the last character, however many writes and further
\* close() calls were made.
C7_CloseBracketAtMostOnce ==
    /\ Count("]", _fp) = (IF closes_done >= 1 THEN 1 ELSE 0)
    /\ closes_done >= 1 => _fp[Len(_fp)] = "]"

C7_Witness ==
    /\ close_calls >= 2
    /\ closes_done = 1
    /\ last_op = "close"
    /\ raised = ClosedFile("close")

\* C8 (as claimed): a write() whose element fails to encode writes nothing to
\* the file and leaves the element counter unchanged.
C8_FailedEncodeWritesNothing ==
    [][(last_op' = "write" /\ calls' = calls + 1 /\ raised' = Exc("TypeError", "dumps")) =>
          (_fp' = _fp /\ _count' = _count)]_vars

\* The encoded texts of the values of seq, joined by sep.
RECURSIVE JoinWith(_, _)
JoinWith(seq, sep) ==
    IF seq = <<>> THEN <<>>
    ELSE IF Len(seq) = 1 THEN IntStr(seq[1].val)
    ELSE IntStr(seq[1].val) \o sep \o JoinWith(Tail(seq), sep)

\* The number of elements the StreamArray has taken from its source.
Yielded == Len(items) - Len(generator)

\* C15: from its construction until its iteration begins a StreamArray reports
\* length 1, whatever the source holds; while the consumer holds the k-th
\* element it reports k-1; once the source is exhausted it reports the number N
\* of elements.  The source is consumed once, in order, and an element is taken
\* only after the chunks of the elements before it were handed over.
C15_StreamArrayLength ==
    /\ (hack_pc \in {"L53", "for"} /\ ~iterating) =>
          (StreamArrayLen = 1 /\ generator = items)
    /\ (iterating /\ hack_pc \in {"emit", "default", "for"}) =>
          (Yielded >= 1 /\ StreamArrayLen = Yielded - 1)
    /\ hack_pc \in {"end", "done"} =>
          (generator = <<>> /\ StreamArrayLen = Len(items))
    /\ hack_pc # "L52" => generator = SubSeq(items, Yielded + 1, Len(items))
    /\ (iterating /\ hack_pc = "for") =>
          hack_fp = <<"[">> \o JoinWith(SubSeq(items, 1, Yielded), item_separator)

C15_Witness ==
    /\ hack_pc = "emit"
    /\ Yielded = MaxLen
    /\ StreamArrayLen = MaxLen - 1

\* C16: dump_it requests an element from the source only when the text of every
\* element it has pulled is in the sink; between a pull and the write of that
\* element's text exactly one element, the loop variable, is pending.
C16_DumpItStreams ==
    /\ pc \in {"L37", "L43"} => fp = <<"[">> \o JoinComma(pulled)
    /\ pc = "done" => fp = <<"[">> \o JoinComma(pulled) \o <<"]">>
    /\ pc \in {"L38", "L42"} =>
          /\ pulled # <<>>
          /\ obj = pulled[Len(pulled)]
          /\ IsPrefix(<<"[">> \o JoinComma(SubSeq(pulled, 1, Len(pulled) - 1)), fp)
          /\ Len(fp) <= 1 + Len(JoinComma(SubSeq(pulled, 1, Len(pulled) - 1))) + 1

C16_Witness ==
    /\ pc = "L37"
    /\ Len(pulled) = 2
    /\ it # <<>>

\* The partitions a call of nonzero_partions returned.
Partions == result.output

\* C11 (as claimed): nonzero_partions returns, in ascending order, the maximal
\* runs of consecutive nonzero elements as half-open (start, stop) pairs: every
\* index inside a pair holds a nonzero element, every nonzero element lies in
\* exactly one pair, and no two pairs are adjacent or overlap.
C11_NonzeroRunsExactly ==
    func = "nonzero_partions" =>
        /\ ~result.raised
        /\ \A j \in 1..Len(Partions) :
              /\ 0 <= Partions[j][1]
              /\ Partions[j][1] < Partions[j][2]
              /\ Partions[j][2] <= Len(array)
              /\ \A i \in Partions[j][1]..(Partions[j][2] - 1) : array[i + 1] # 0
        /\ \A j \in 1..(Len(Partions) - 1) : Partions[j][2] < Partions[j + 1][1]
        /\ \A i \in 0..(Len(array) - 1) :
              array[i + 1] # 0 =>
                  Cardinality({j \in 1..Len(Partions) :
                                  Partions[j][1] <= i /\ i < Partions[j][2]}) = 1

\* The input of max_pool_1d extended on both sides with the padding value.
Padded(j) == IF 0 <= j /\ j < Len(array) THEN array[j + 1] ELSE args.value

SetMax(S) == CHOOSE m \in S : \A x \in S : x <= m

WindowMax(i) ==
    SetMax({Padded(j) : j \in (i * args.stride - args.padding)
                               ..(i * args.stride - args.padding + args.ksize - 1)})

\* C12 (as claimed): max_pool_1d returns an output of length
\* floor((L_in + 2*padding - ksize) / stride) + 1 whose element i is the maximum
\* of the ksize positions from i*stride - padding on of the padded input
\* (stated for the arguments that make that length at least 0).
C12_MaxPoolWindows ==
    (/\ func = "max_pool_1d"
     /\ (Len(array) + 2 * args.padding - args.ksize) \div args.stride + 1 >= 0) =>
        /\ ~result.raised
        /\ Len(result.output) =
              (Len(array) + 2 * args.padding - args.ksize) \div args.stride + 1
        /\ \A i \in 0..(Len(result.output) - 1) : result.output[i + 1] = WindowMax(i)

\* C13: with stride 1, an odd ksize and padding = ksize // 2, max_pool_1d
\* returns an output as long as its input, for every input length.
C13_SameSizeOutput ==
    (/\ func = "max_pool_1d"
     /\ args.stride = 1
     /\ args.ksize % 2 = 1
     /\ args.padding = args.ksize \div 2) =>
        (~result.raised /\ Len(result.output) = Len(array))

C13_Witness ==
    /\ func = "max_pool_1d"
    /\ args.stride = 1
    /\ args.ksize = 3
    /\ args.padding = 1
    /\ Len(array) = MaxArr
    /\ Len(result.output) = MaxArr

Ascending(a) == \A i \in 1..(Len(a) - 1) : a[i] <= a[i + 1]

\* C14: for an array in ascending order array_distance_split returns, in
\* ascending order, exactly the indices i >= 1 whose element is at least
\* `distance` above the element before it; index 0 is never returned.
C14_DistanceSplitIndices ==
    (func = "array_distance_split" /\ Ascending(array)) =>
        /\ ~result.raised
        /\ \A j \in 1..(Len(result.output) - 1) : result.output[j] < result.output[j + 1]
        /\ {result.output[j] : j \in 1..Len(result.output)} =
              {i \in 1..(Len(array) - 1) : array[i + 1] - array[i] >= args.distance}

C14_Witness ==
    /\ func = "array_distance_split"
    /\ Ascending(array)
    /\ Len(array) = MaxArr
    /\ array[2] - array[1] = args.distance
    /\ array[3] - array[2] < args.distance
    /\ result.output = <<1, 3>>

====
